---- MODULE Spec2Model ----
(***************************************************************************)
(* State-machine model of the BestBuy store: Product (products.py) and     *)
(* Store (store.py).  Product objects live in a heap indexed by identity;  *)
(* the Store holds a list of identities.  Every public method is one       *)
(* action; its outcome (return value or raised exception) is recorded in   *)
(* the variable last.                                                      *)
(***************************************************************************)
EXTENDS Integers, Sequences, FiniteSets

(* ---------------------------- bounds ---------------------------------- *)

\* largest stock level and largest constructor/setter quantity explored
MaxQty == 2

\* longest shopping list handed to Store.order
MaxListLen == 2

\* longest initial collection handed to Store.__init__
MaxStoreLen == 2

\* identities of the Product objects that can be allocated
ProductIds == {"p1", "p2"}

\* names offered to Product.__init__ ("" is the empty name)
Names == {"", "a"}

\* valid unit prices explored; -1 stands for a negative price
ValidPrices == {0, 2, 3}
PriceInputs == ValidPrices \cup {-1}

\* quantities offered to Product.__init__ and set_quantity
QuantityInputs == -1 .. MaxQty

\* quantities offered to Product.buy
BuyInputs == -1 .. (MaxQty + 1)

\* amounts offered in shopping-list entries
AmountInputs == 0 .. (MaxQty + 1)

(* --------------------------- exceptions -------------------------------- *)

NoError == [type |-> "", msg |-> "", n |-> 0]

ValueError(m) == [type |-> "ValueError", msg |-> m, n |-> 0]

ProductNotActiveError == [type |-> "ProductNotActiveError", msg |-> "Product Inactive", n |-> 0]

\* f"Product only has {self.quantity} in stock": n is the interpolated stock
ProductQuantityError_stock(n) == [type |-> "ProductQuantityError", msg |-> "Product only has {n} in stock", n |-> n]

ProductQuantityError_invalid == [type |-> "ProductQuantityError", msg |-> "Product Quantity Invalid", n |-> 0]

(* ----------------------------- state ----------------------------------- *)

VARIABLES
    made,           \* identities of the Product objects constructed so far
    heap,           \* identity -> the object's fields
    store,          \* the Store: whether it exists, and self.products
    shopping_list,  \* the shopping list the caller is assembling
    last,           \* the most recent call and its outcome
    ui              \* where the console session stands, and the product picked last

vars == <<made, heap, store, shopping_list, last, ui>>

\* the fields of a slot no object has been allocated in
NoObject == [name |-> "", price |-> 0, quantity |-> 0, active |-> FALSE]

NoCall == [op |-> "", p |-> "", name |-> "", price |-> 0, q |-> 0, err |-> NoError, returned |-> FALSE, ret |-> 0, idx |-> 0, products |-> <<>>, cmd |-> 0]

(* ------------------------- Product methods ----------------------------- *)

\* mutant: the price check is missing
Product_init_no_price_check(name, price, quantity) ==
    IF name = "" THEN [obj |-> NoObject, err |-> ValueError("A product's name cannot be empty.")]
    ELSE IF quantity < 0 THEN [obj |-> NoObject, err |-> ValueError("A product's quantity cannot be less than zero.")]
    ELSE [obj |-> [name |-> name, price |-> price, quantity |-> quantity, active |-> TRUE], err |-> NoError]

\* Product.__init__: the new object, or the exception raised
Product_init(name, price, quantity) ==
    IF name = "" THEN [obj |-> NoObject, err |-> ValueError("A product's name cannot be empty.")]
    ELSE IF price < 0 THEN [obj |-> NoObject, err |-> ValueError("A product's price cannot be less than zero.")]
    ELSE IF quantity < 0 THEN [obj |-> NoObject, err |-> ValueError("A product's quantity cannot be less than zero.")]
    ELSE [obj |-> [name |-> name, price |-> price, quantity |-> quantity, active |-> TRUE], err |-> NoError]

get_quantity(prod) == prod.quantity

is_active(prod) == prod.active

activate(prod) == [prod EXCEPT !.active = TRUE]

\* mutant: switching a product off also clears its stock
deactivate_clears_stock(prod) == [prod EXCEPT !.active = FALSE, !.quantity = 0]

deactivate(prod) == [prod EXCEPT !.active = FALSE]

\* mutant: the zero case does not deactivate
set_quantity_no_deactivate(prod, quantity) ==
    IF quantity < 0 THEN [obj |-> prod, err |-> ValueError("A product's quantity cannot be less than zero.")]
    ELSE [obj |-> [prod EXCEPT !.quantity = quantity], err |-> NoError]

\* mutant: the negative case is not rejected
set_quantity_no_check(prod, quantity) ==
    IF quantity = 0 THEN [obj |-> [deactivate(prod) EXCEPT !.quantity = quantity], err |-> NoError]
    ELSE [obj |-> [prod EXCEPT !.quantity = quantity], err |-> NoError]

\* mutant: a positive quantity switches the product back on
set_quantity_reactivates(prod, quantity) ==
    IF quantity < 0 THEN [obj |-> prod, err |-> ValueError("A product's quantity cannot be less than zero.")]
    ELSE IF quantity = 0 THEN [obj |-> [deactivate(prod) EXCEPT !.quantity = quantity], err |-> NoError]
    ELSE [obj |-> [activate(prod) EXCEPT !.quantity = quantity], err |-> NoError]

\* Product.set_quantity: the object after the call, and the exception raised
set_quantity(prod, quantity) ==
    IF quantity < 0 THEN [obj |-> prod, err |-> ValueError("A product's quantity cannot be less than zero.")]
    ELSE IF quantity = 0 THEN [obj |-> [deactivate(prod) EXCEPT !.quantity = quantity], err |-> NoError]
    ELSE [obj |-> [prod EXCEPT !.quantity = quantity], err |-> NoError]

BuyFails(prod, e) == [obj |-> prod, err |-> e, returned |-> FALSE, ret |-> 0]

\* the tail of Product.buy, after the three checks passed
buy_apply(prod, quantity) ==
    LET r == set_quantity(prod, prod.quantity - quantity)
    IN  IF r.err # NoError THEN BuyFails(r.obj, r.err)
        ELSE [obj |-> r.obj, err |-> NoError, returned |-> TRUE, ret |-> quantity * r.obj.price]

\* mutant: the stock is written directly, not through set_quantity
buy_direct_write(prod, quantity) ==
    IF ~prod.active THEN BuyFails(prod, ProductNotActiveError)
    ELSE IF quantity > prod.quantity THEN BuyFails(prod, ProductQuantityError_stock(prod.quantity))
    ELSE IF quantity < 1 THEN BuyFails(prod, ProductQuantityError_invalid)
    ELSE [obj |-> [prod EXCEPT !.quantity = prod.quantity - quantity], err |-> NoError, returned |-> TRUE, ret |-> quantity * prod.price]

\* mutant: the price is computed from the stock left, not from the amount bought
buy_price_of_rest(prod, quantity) ==
    IF ~prod.active THEN BuyFails(prod, ProductNotActiveError)
    ELSE IF quantity > prod.quantity THEN BuyFails(prod, ProductQuantityError_stock(prod.quantity))
    ELSE IF quantity < 1 THEN BuyFails(prod, ProductQuantityError_invalid)
    ELSE LET r == set_quantity(prod, prod.quantity - quantity)
         IN  [obj |-> r.obj, err |-> NoError, returned |-> TRUE, ret |-> r.obj.quantity * r.obj.price]

\* mutant: the stock check also rejects a buy of the whole stock
buy_stock_off_by_one(prod, quantity) ==
    IF ~prod.active THEN BuyFails(prod, ProductNotActiveError)
    ELSE IF quantity >= prod.quantity THEN BuyFails(prod, ProductQuantityError_stock(prod.quantity))
    ELSE IF quantity < 1 THEN BuyFails(prod, ProductQuantityError_invalid)
    ELSE buy_apply(prod, quantity)

\* mutant: the stock check comes before the active check
buy_stock_check_first(prod, quantity) ==
    IF quantity > prod.quantity THEN BuyFails(prod, ProductQuantityError_stock(prod.quantity))
    ELSE IF ~prod.active THEN BuyFails(prod, ProductNotActiveError)
    ELSE IF quantity < 1 THEN BuyFails(prod, ProductQuantityError_invalid)
    ELSE buy_apply(prod, quantity)

\* mutant: the quantity < 1 check is missing
buy_no_invalid_check(prod, quantity) ==
    IF ~prod.active THEN BuyFails(prod, ProductNotActiveError)
    ELSE IF quantity > prod.quantity THEN BuyFails(prod, ProductQuantityError_stock(prod.quantity))
    ELSE buy_apply(prod, quantity)

\* Product.buy: the object after the call, the exception raised or the value returned
buy(prod, quantity) ==
    IF ~prod.active THEN BuyFails(prod, ProductNotActiveError)
    ELSE IF quantity > prod.quantity THEN BuyFails(prod, ProductQuantityError_stock(prod.quantity))
    ELSE IF quantity < 1 THEN BuyFails(prod, ProductQuantityError_invalid)
    ELSE buy_apply(prod, quantity)

(* -------------------------- Store methods ------------------------------ *)

\* `product in self.products`: Product defines no __eq__, so == is identity
Contains(products, product) == \E i \in 1 .. Len(products) : products[i] = product

\* list.remove: drops the first occurrence
RECURSIVE ListRemove(_, _)
ListRemove(products, product) ==
    IF products = <<>> THEN <<>>
    ELSE IF Head(products) = product THEN Tail(products)
    ELSE <<Head(products)>> \o ListRemove(Tail(products), product)

\* mutant: the membership check is missing
add_product_no_check(products, product) ==
    [products |-> Append(products, product), err |-> NoError]

\* Store.add_product
add_product(products, product) ==
    IF Contains(products, product) THEN [products |-> products, err |-> ValueError("This product is already in store inventory.")]
    ELSE [products |-> Append(products, product), err |-> NoError]

\* mutant: the last element is removed, whichever it is
remove_product_pop(products, product) ==
    IF ~Contains(products, product) THEN [products |-> products, err |-> ValueError("This product does not exist in store inventory.")]
    ELSE [products |-> SubSeq(products, 1, Len(products) - 1), err |-> NoError]

\* Store.remove_product
remove_product(products, product) ==
    IF ~Contains(products, product) THEN [products |-> products, err |-> ValueError("This product does not exist in store inventory.")]
    ELSE [products |-> ListRemove(products, product), err |-> NoError]

\* the for loop of Store.order from entry i on, total_price being total so far
RECURSIVE order_loop(_, _, _, _)
order_loop(h, list, i, total) ==
    IF i > Len(list) THEN [heap |-> h, err |-> NoError, returned |-> TRUE, ret |-> total, idx |-> 0]
    ELSE LET product == list[i][1]
             amount == list[i][2]
             r == buy(h[product], amount)
         IN  IF r.err # NoError
             THEN [heap |-> [h EXCEPT ![product] = r.obj], err |-> r.err, returned |-> FALSE, ret |-> 0, idx |-> i]
             ELSE order_loop([h EXCEPT ![product] = r.obj], list, i + 1, total + r.ret)

\* the entries of list that are the first for their product
RECURSIVE FirstPerProduct(_, _)
FirstPerProduct(list, seen) ==
    IF list = <<>> THEN <<>>
    ELSE IF Head(list)[1] \in seen THEN FirstPerProduct(Tail(list), seen)
    ELSE <<Head(list)>> \o FirstPerProduct(Tail(list), seen \cup {Head(list)[1]})

\* mutant: repeated entries for one product are dropped
order_dedup(h, list) == order_loop(h, FirstPerProduct(list, {}), 1, 0)

\* mutant: a failing order undoes the purchases already applied
order_rollback(h, list) ==
    LET r == order_loop(h, list, 1, 0)
    IN  IF r.err # NoError THEN [r EXCEPT !.heap = h] ELSE r

\* mutant: after the loop every product without stock is switched off
order_deactivates_sold_out(h, list) ==
    LET r == order_loop(h, list, 1, 0)
    IN  [r EXCEPT !.heap = [p \in DOMAIN r.heap |-> IF r.heap[p].quantity = 0 THEN deactivate(r.heap[p]) ELSE r.heap[p]]]

\* Store.order: the heap after the call, the exception raised (at entry idx) or the total returned
order(h, list) == order_loop(h, list, 1, 0)

\* mutant: only the active products are counted
RECURSIVE get_total_quantity_active_only(_, _)
get_total_quantity_active_only(products, h) ==
    IF products = <<>> THEN 0
    ELSE (IF h[Head(products)].active THEN h[Head(products)].quantity ELSE 0)
         + get_total_quantity_active_only(Tail(products), h)

\* sum(...) over the quantities of a list of products
RECURSIVE SumQuantity(_, _)
SumQuantity(products, h) ==
    IF products = <<>> THEN 0
    ELSE h[Head(products)].quantity + SumQuantity(Tail(products), h)

\* Store.get_total_quantity
get_total_quantity(products, h) == SumQuantity(products, h)

\* mutant: the filter is missing
get_all_products_no_filter(products, h) == products

\* Store.get_all_products: list(filter(lambda product: product.is_active(), self.products))
get_all_products(products, h) == SelectSeq(products, LAMBDA product : is_active(h[product]))

(* ------------------------------ Init ----------------------------------- *)

Init ==
    /\ made = {}
    /\ heap = [p \in ProductIds |-> NoObject]
    /\ store = [made |-> FALSE, products |-> <<>>]
    /\ shopping_list = <<>>
    /\ last = NoCall
    /\ ui = [pc |-> "off", product |-> ""]

(* ----------------------------- actions --------------------------------- *)

\* p = Product(name, price, quantity)
Product_new(p, name, price, quantity) ==
    /\ p \notin made
    /\ LET r == Product_init(name, price, quantity)
       IN  /\ made' = IF r.err = NoError THEN made \cup {p} ELSE made
           /\ heap' = IF r.err = NoError THEN [heap EXCEPT ![p] = r.obj] ELSE heap
           /\ last' = [NoCall EXCEPT !.op = "Product", !.p = p, !.name = name, !.price = price, !.q = quantity, !.err = r.err, !.returned = (r.err = NoError)]
    /\ UNCHANGED <<store, shopping_list>>

\* p.set_quantity(quantity)
Product_set_quantity(p, quantity) ==
    /\ p \in made
    /\ LET r == set_quantity(heap[p], quantity)
       IN  /\ heap' = [heap EXCEPT ![p] = r.obj]
           /\ last' = [NoCall EXCEPT !.op = "set_quantity", !.p = p, !.q = quantity, !.err = r.err, !.returned = (r.err = NoError)]
    /\ UNCHANGED <<made, store, shopping_list>>

\* p.activate()
Product_activate(p) ==
    /\ p \in made
    /\ heap' = [heap EXCEPT ![p] = activate(heap[p])]
    /\ last' = [NoCall EXCEPT !.op = "activate", !.p = p, !.returned = TRUE]
    /\ UNCHANGED <<made, store, shopping_list>>

\* p.deactivate()
Product_deactivate(p) ==
    /\ p \in made
    /\ heap' = [heap EXCEPT ![p] = deactivate(heap[p])]
    /\ last' = [NoCall EXCEPT !.op = "deactivate", !.p = p, !.returned = TRUE]
    /\ UNCHANGED <<made, store, shopping_list>>

\* p.buy(quantity)
Product_buy(p, quantity) ==
    /\ p \in made
    /\ LET r == buy(heap[p], quantity)
       IN  /\ heap' = [heap EXCEPT ![p] = r.obj]
           /\ last' = [NoCall EXCEPT !.op = "buy", !.p = p, !.q = quantity, !.err = r.err, !.returned = r.returned, !.ret = r.ret]
    /\ UNCHANGED <<made, store, shopping_list>>

\* the sequences over S of length at most n
SeqsUpTo(S, n) == UNION {[1 .. k -> S] : k \in 0 .. n}

\* store = Store(products)
Store_new(products) ==
    /\ ~store.made
    /\ store' = [made |-> TRUE, products |-> products]
    /\ last' = [NoCall EXCEPT !.op = "Store", !.returned = TRUE]
    /\ UNCHANGED <<made, heap, shopping_list>>

\* store.add_product(p)
Store_add_product(p) ==
    /\ store.made
    /\ p \in made
    /\ LET r == add_product(store.products, p)
       IN  /\ store' = [store EXCEPT !.products = r.products]
           /\ last' = [NoCall EXCEPT !.op = "add_product", !.p = p, !.err = r.err, !.returned = (r.err = NoError)]
    /\ UNCHANGED <<made, heap, shopping_list>>

\* store.remove_product(p)
Store_remove_product(p) ==
    /\ store.made
    /\ p \in made
    /\ LET r == remove_product(store.products, p)
       IN  /\ store' = [store EXCEPT !.products = r.products]
           /\ last' = [NoCall EXCEPT !.op = "remove_product", !.p = p, !.err = r.err, !.returned = (r.err = NoError)]
    /\ UNCHANGED <<made, heap, shopping_list>>

\* shopping_list.append((p, amount)): the caller puts one more entry on the list
Caller_append(p, amount) ==
    /\ store.made
    /\ p \in made
    /\ Len(shopping_list) < MaxListLen
    /\ shopping_list' = Append(shopping_list, <<p, amount>>)
    /\ last' = NoCall
    /\ UNCHANGED <<made, heap, store>>

\* store.order(shopping_list); the list is discarded afterwards
Store_order ==
    /\ store.made
    /\ LET r == order(heap, shopping_list)
       IN  /\ heap' = r.heap
           /\ last' = [NoCall EXCEPT !.op = "order", !.err = r.err, !.returned = r.returned, !.ret = r.ret, !.idx = r.idx]
    /\ shopping_list' = <<>>
    /\ UNCHANGED <<made, store>>

\* store.get_total_quantity()
Store_get_total_quantity ==
    /\ store.made
    /\ last' = [NoCall EXCEPT !.op = "get_total_quantity", !.returned = TRUE, !.ret = get_total_quantity(store.products, heap)]
    /\ UNCHANGED <<made, heap, store, shopping_list>>

\* store.get_all_products()
Store_get_all_products ==
    /\ store.made
    /\ last' = [NoCall EXCEPT !.op = "get_all_products", !.returned = TRUE, !.products = get_all_products(store.products, heap)]
    /\ UNCHANGED <<made, heap, store, shopping_list>>

\* the caller is not in the middle of assembling a shopping list
Idle == shopping_list = <<>>

\* Product calls, and orders placed with a Store.  Store.order reads no field of
\* the Store, so here the Store is built over the empty collection; the
\* collections are explored by NextStore.  A shopping list is assembled and
\* handed to order() before any other call is made (main.py, order_items).
Next ==
    \/ \E p \in ProductIds, name \in Names, price \in PriceInputs, quantity \in QuantityInputs : Idle /\ Product_new(p, name, price, quantity) /\ UNCHANGED ui
    \/ \E p \in ProductIds, quantity \in QuantityInputs : Idle /\ Product_set_quantity(p, quantity) /\ UNCHANGED ui
    \/ \E p \in ProductIds : Idle /\ Product_activate(p) /\ UNCHANGED ui
    \/ \E p \in ProductIds : Idle /\ Product_deactivate(p) /\ UNCHANGED ui
    \/ \E p \in ProductIds, quantity \in BuyInputs : Idle /\ Product_buy(p, quantity) /\ UNCHANGED ui
    \/ Store_new(<<>>) /\ UNCHANGED ui
    \/ \E p \in ProductIds, amount \in AmountInputs : Caller_append(p, amount) /\ UNCHANGED ui
    \/ Store_order /\ UNCHANGED ui

Spec == Init /\ [][Next]_vars

\* The Store's collection: construction over any list of products, add and remove.
NextStore ==
    \/ \E p \in ProductIds, name \in Names, price \in PriceInputs, quantity \in QuantityInputs : Product_new(p, name, price, quantity) /\ UNCHANGED ui
    \/ \E products \in SeqsUpTo(made, MaxStoreLen) : Store_new(products) /\ UNCHANGED ui
    \/ \E p \in ProductIds : Store_add_product(p) /\ UNCHANGED ui
    \/ \E p \in ProductIds : Store_remove_product(p) /\ UNCHANGED ui

SpecStore == Init /\ [][NextStore]_vars

\* amounts of at least one unit offered in shopping-list entries
PositiveAmounts == 1 .. MaxQty

\* The Store with its collection and its products together: every Product
\* call, construction over any list of products, the queries and orders.
NextCatalog ==
    \/ \E p \in ProductIds, name \in Names, price \in PriceInputs, quantity \in QuantityInputs : Idle /\ Product_new(p, name, price, quantity) /\ UNCHANGED ui
    \/ \E p \in ProductIds, quantity \in QuantityInputs : Idle /\ Product_set_quantity(p, quantity) /\ UNCHANGED ui
    \/ \E p \in ProductIds : Idle /\ Product_activate(p) /\ UNCHANGED ui
    \/ \E p \in ProductIds : Idle /\ Product_deactivate(p) /\ UNCHANGED ui
    \/ \E p \in ProductIds, quantity \in BuyInputs : Idle /\ Product_buy(p, quantity) /\ UNCHANGED ui
    \/ \E products \in SeqsUpTo(made, MaxStoreLen) : Store_new(products) /\ UNCHANGED ui
    \/ \E p \in ProductIds : Idle /\ Store_add_product(p) /\ UNCHANGED ui
    \/ \E p \in ProductIds : Idle /\ Store_remove_product(p) /\ UNCHANGED ui
    \/ Idle /\ Store_get_total_quantity /\ UNCHANGED ui
    \/ Idle /\ Store_get_all_products /\ UNCHANGED ui
    \/ \E p \in ProductIds, amount \in PositiveAmounts : Caller_append(p, amount) /\ UNCHANGED ui
    \/ Store_order /\ UNCHANGED ui

SpecCatalog == Init /\ [][NextCatalog]_vars

(* ------------------------- console session ---------------------------- *)

\* len(COMMANDS)
NumCommands == 4

\* numbers typed at the menu prompt
MenuInputs == (0 - NumCommands - 1) .. (NumCommands + 2)

TypeError == [type |-> "TypeError", msg |-> "cannot unpack non-iterable NoneType object", n |-> 0]

\* menu_keys[num-1] in get_user_choice: the 1-based position of the command
\* picked (a negative index counts from the end of the list), 0 for IndexError
CommandOf(num) ==
    LET i == num - 1
    IN  IF 0 <= i /\ i < NumCommands THEN i + 1
        ELSE IF i < 0 /\ i >= 0 - NumCommands THEN i + NumCommands + 1
        ELSE 0

\* start(store): the session shows the menu
UI_start ==
    /\ ui.pc = "off"
    /\ store.made
    /\ ui' = [pc |-> "menu", product |-> ""]
    /\ last' = [NoCall EXCEPT !.op = "start"]
    /\ UNCHANGED <<made, heap, store, shopping_list>>

\* get_user_choice, input that int() rejects: reported, and asked again
UI_menu_text ==
    /\ ui.pc = "menu"
    /\ last' = [NoCall EXCEPT !.op = "menu", !.name = "x"]
    /\ UNCHANGED <<made, heap, store, shopping_list, ui>>

\* get_user_choice and start, a number typed at the menu: the command picked
\* runs (1 list, 2 total, 3 order_items, 4 Quit); for IndexError
\* get_user_choice returns None, which start cannot unpack
UI_menu_number(num) ==
    /\ ui.pc = "menu"
    /\ LET c == CommandOf(num)
       IN  /\ ui' = [pc |-> CASE c = 0 -> "crashed" [] c = 3 -> "product" [] c = 4 -> "exited" [] OTHER -> "menu", product |-> ""]
           /\ last' = [NoCall EXCEPT !.op = "menu", !.q = num, !.cmd = c,
                                     !.err = IF c = 0 THEN TypeError ELSE NoError,
                                     !.products = IF c = 1 THEN get_all_products(store.products, heap) ELSE <<>>,
                                     !.ret = IF c = 2 THEN get_total_quantity(store.products, heap) ELSE 0]
    /\ UNCHANGED <<made, heap, store, shopping_list>>

\* order_items, a product number within 1..len(products) typed: the amount is asked next
UI_pick_product(n) ==
    /\ ui.pc = "product"
    /\ Len(shopping_list) < MaxListLen
    /\ LET products == get_all_products(store.products, heap)
       IN  /\ n \in 1 .. Len(products)
           /\ ui' = [pc |-> "amount", product |-> products[n]]
    /\ last' = NoCall
    /\ UNCHANGED <<made, heap, store, shopping_list>>

\* order_items, an amount within 1..product.quantity typed: the entry is appended
UI_pick_amount(amount) ==
    /\ ui.pc = "amount"
    /\ amount \in 1 .. heap[ui.product].quantity
    /\ Caller_append(ui.product, amount)
    /\ ui' = [pc |-> "product", product |-> ""]

\* get_valid_int, input it rejects (not a number, or outside the range): asked again
UI_reprompt ==
    /\ ui.pc \in {"product", "amount"}
    /\ last' = [NoCall EXCEPT !.op = "reprompt"]
    /\ UNCHANGED <<made, heap, store, shopping_list, ui>>

\* order_items, empty input at the product prompt: the list is ordered, a
\* purchase error is caught and printed; an empty list is not ordered
UI_finish ==
    /\ ui.pc = "product"
    /\ IF shopping_list # <<>>
       THEN Store_order
       ELSE /\ last' = [NoCall EXCEPT !.op = "cancelled"]
            /\ UNCHANGED <<made, heap, store, shopping_list>>
    /\ ui' = [pc |-> "menu", product |-> ""]

\* before start() is called
NotStarted == ui.pc = "off"

\* The console session over any Store: products and the Store are set up,
\* then start() runs and every further step is one input of the user.
NextUI ==
    \/ \E p \in ProductIds, quantity \in 0 .. MaxQty : NotStarted /\ Product_new(p, "a", 2, quantity) /\ UNCHANGED ui
    \/ \E p \in ProductIds, quantity \in 0 .. MaxQty : NotStarted /\ Product_set_quantity(p, quantity) /\ UNCHANGED ui
    \/ \E p \in ProductIds : NotStarted /\ Product_activate(p) /\ UNCHANGED ui
    \/ \E p \in ProductIds : NotStarted /\ Product_deactivate(p) /\ UNCHANGED ui
    \/ \E products \in SeqsUpTo(made, MaxStoreLen) : Store_new(products) /\ UNCHANGED ui
    \/ UI_start
    \/ UI_menu_text
    \/ \E num \in MenuInputs : UI_menu_number(num)
    \/ \E n \in 1 .. (MaxStoreLen + 1) : UI_pick_product(n)
    \/ \E amount \in 1 .. MaxQty : UI_pick_amount(amount)
    \/ UI_reprompt
    \/ UI_finish

SpecUI == Init /\ [][NextUI]_vars

(* ------------------------ auxiliary operators -------------------------- *)

\* quantity == 0 implies not active, for the object p of heap h
ZeroImpliesInactive(h, p) == h[p].quantity = 0 => ~h[p].active

\* the units the first n entries of list ask of product p
RECURSIVE PrefixQty(_, _, _)
PrefixQty(list, n, p) ==
    IF n = 0 THEN 0
    ELSE PrefixQty(list, n - 1, p) + (IF list[n][1] = p THEN list[n][2] ELSE 0)

\* the sum over the first n entries of list of amount * unit price, prices read in heap h
RECURSIVE PrefixPrice(_, _, _)
PrefixPrice(h, list, n) ==
    IF n = 0 THEN 0
    ELSE PrefixPrice(h, list, n - 1) + list[n][2] * h[list[n][1]].price

\* one of the first n entries of list names product p
NamedIn(list, n, p) == \E j \in 1 .. n : list[j][1] = p

NoDuplicates(products) ==
    \A i, j \in 1 .. Len(products) : i # j => products[i] # products[j]

(* ------------------------------ claims --------------------------------- *)

\* C1 (as stated): in every reachable state, every constructed product with
\* quantity 0 is inactive.
C1_ZeroQuantityInactive ==
    \A p \in made : ZeroImpliesInactive(heap, p)

\* C1 (amended): construction with a quantity above zero establishes
\* "quantity == 0 implies inactive", and every call other than activate()
\* on that product keeps it; only construction with quantity 0 and
\* activate() on a product without stock lead to an active product with
\* quantity 0.
C1_ZeroQuantityInactiveKept ==
    [][\A p \in ProductIds :
          /\ (p \notin made /\ p \in made' /\ last'.q > 0) => ZeroImpliesInactive(heap', p)
          /\ (p \in made /\ ZeroImpliesInactive(heap, p) /\ ~(last'.op = "activate" /\ last'.p = p))
                => ZeroImpliesInactive(heap', p)]_vars

\* C1 witness: set_quantity(0) has run on a product and left it inactive
C1_Witness ==
    /\ last.op = "set_quantity" /\ last.q = 0 /\ last.returned
    /\ heap[last.p].quantity = 0 /\ ~heap[last.p].active

\* C2: when order() fails at entry i, the purchases of the entries before i
\* stay applied, entry i and the later ones change nothing, the exception is
\* the one buy() raises for entry i, and nothing is returned.
C2_OrderPartialFailure ==
    [][(last'.op = "order" /\ last'.err # NoError) =>
          LET i == last'.idx
          IN  /\ i \in 1 .. Len(shopping_list)
              /\ ~last'.returned
              /\ \A p \in ProductIds :
                    /\ heap'[p].quantity = heap[p].quantity - PrefixQty(shopping_list, i - 1, p)
                    /\ heap'[p].name = heap[p].name
                    /\ heap'[p].price = heap[p].price
                    /\ ~NamedIn(shopping_list, i - 1, p) => heap'[p] = heap[p]
              /\ \A j \in 1 .. (i - 1) : shopping_list[j][2] >= 1
              /\ last'.err = buy(heap'[shopping_list[i][1]], shopping_list[i][2]).err]_vars

\* C2 witness: an order failed at its second entry for lack of stock
C2_Witness ==
    /\ last.op = "order" /\ last.idx = 2 /\ ~last.returned
    /\ last.err.type = "ProductQuantityError" /\ last.err.msg = "Product only has {n} in stock"

\* C3: buy(q) on an active product with 1 <= q <= quantity succeeds, returns
\* q * price and lowers quantity by q; name and price stay.
C3_BuySucceeds ==
    [][(/\ last'.op = "buy"
        /\ heap[last'.p].active
        /\ 1 <= last'.q
        /\ last'.q <= heap[last'.p].quantity) =>
          /\ last'.err = NoError
          /\ last'.returned
          /\ last'.ret = last'.q * heap[last'.p].price
          /\ heap'[last'.p].quantity = heap[last'.p].quantity - last'.q
          /\ heap'[last'.p].name = heap[last'.p].name
          /\ heap'[last'.p].price = heap[last'.p].price
          /\ \A o \in ProductIds \ {last'.p} : heap'[o] = heap[o]]_vars

\* C3 witness: a buy of two units at a price above zero has returned
C3_Witness ==
    /\ last.op = "buy" /\ last.returned /\ last.q = 2
    /\ last.ret = 2 * heap[last.p].price /\ last.ret > 0

\* C4: buy(q) on an inactive product raises ProductNotActiveError whatever q
\* is, and changes nothing.
C4_BuyInactive ==
    [][(last'.op = "buy" /\ ~heap[last'.p].active) =>
          /\ last'.err = ProductNotActiveError
          /\ ~last'.returned
          /\ heap' = heap]_vars

\* C4 witness: a buy of more than the stock failed as inactive
C4_Witness ==
    /\ last.op = "buy" /\ last.err = ProductNotActiveError
    /\ last.q > heap[last.p].quantity /\ ~heap[last.p].active

C6_OrderSucceeds ==
    [][(last'.op = "order" /\ last'.err = NoError) =>
          LET n == Len(shopping_list)
          IN  /\ last'.returned
              /\ last'.ret = PrefixPrice(heap, shopping_list, n)
              /\ \A j \in 1 .. n : shopping_list[j][2] >= 1
              /\ \A p \in ProductIds :
                    /\ heap'[p].quantity = heap[p].quantity - PrefixQty(shopping_list, n, p)
                    /\ heap'[p].name = heap[p].name
                    /\ heap'[p].price = heap[p].price]_vars

\* C6 witness: an order returned a total above zero that emptied a product
C6_Witness ==
    /\ last.op = "order" /\ last.returned /\ last.ret > 0
    /\ \E p \in made : heap[p].quantity = 0 /\ heap[p].price = 2

\* C7 (as stated): no product appears twice in the Store's collection.
C7_NoDuplicates ==
    store.made => NoDuplicates(store.products)

\* C7 (amended): a Store whose collection holds no product twice keeps that
\* through every add_product and remove_product call, failed ones included;
\* Store construction itself accepts a collection with duplicates.
C7_NoDuplicatesKept ==
    [][(store.made /\ NoDuplicates(store.products)) => NoDuplicates(store'.products)]_vars

\* C7 witness: add_product was refused for a product already in a collection
\* of two distinct products
C7_Witness ==
    /\ last.op = "add_product" /\ last.err.type = "ValueError"
    /\ Len(store.products) = 2 /\ NoDuplicates(store.products)

\* C8: price and quantity of every product are never negative, and
\* set_quantity(q) with q < 0 raises ValueError and changes nothing.
C8_NeverNegative ==
    [][/\ \A p \in made' : heap'[p].price >= 0 /\ heap'[p].quantity >= 0
       /\ (last'.op = "set_quantity" /\ last'.q < 0) =>
             /\ last'.err = ValueError("A product's quantity cannot be less than zero.")
             /\ heap' = heap]_vars

\* C8 witness: set_quantity with a negative quantity was rejected
C8_Witness ==
    /\ last.op = "set_quantity" /\ last.q < 0 /\ last.err.type = "ValueError"
    /\ heap[last.p].quantity > 0

\* C9: a call that brings a product's quantity to zero (set_quantity(0), a
\* buy of the whole stock, an order doing so) leaves the product inactive.
C9_ZeroDeactivates ==
    [][\A p \in made :
          (/\ heap'[p].quantity = 0
           /\ \/ heap[p].quantity # 0
              \/ (last'.op = "set_quantity" /\ last'.p = p /\ last'.err = NoError))
          => ~heap'[p].active]_vars

\* C9 witness: a buy of the whole stock has returned and the product is inactive
C9_Witness ==
    /\ last.op = "buy" /\ last.returned /\ last.q >= 1
    /\ heap[last.p].quantity = 0 /\ ~heap[last.p].active

\* C10: an inactive product stays inactive through every call but its own
\* activate(); buy on it fails, an order naming it fails no later than at its
\* first entry for it, and set_quantity(q > 0) changes only its quantity.
C10_InactiveUntilActivate ==
    [][\A p \in made :
          ~heap[p].active =>
             /\ ~(last'.op = "activate" /\ last'.p = p) => ~heap'[p].active
             /\ (last'.op = "buy" /\ last'.p = p) => (last'.err = ProductNotActiveError /\ ~last'.returned)
             /\ (last'.op = "order" /\ NamedIn(shopping_list, Len(shopping_list), p)) =>
                   /\ last'.err # NoError
                   /\ ~NamedIn(shopping_list, last'.idx - 1, p)
                   /\ heap'[p] = heap[p]
             /\ (last'.op = "set_quantity" /\ last'.p = p /\ last'.q > 0) =>
                   heap'[p] = [heap[p] EXCEPT !.quantity = last'.q]]_vars

\* C10 witness: set_quantity with a quantity above zero has run on an
\* inactive product, which is still inactive
C10_Witness ==
    /\ last.op = "set_quantity" /\ last.q > 0 /\ last.returned
    /\ heap[last.p].quantity = last.q /\ ~heap[last.p].active

(* ---------------- auxiliary operators for the Store claims -------------- *)

\* the products a list holds
Range(products) == {products[i] : i \in 1 .. Len(products)}

\* how many times a list holds product p
Count(products, p) == Cardinality({i \in 1 .. Len(products) : products[i] = p})

\* the sum of f over the finite set S
RECURSIVE SetSum(_, _)
SetSum(S, f) ==
    IF S = {} THEN 0
    ELSE LET x == CHOOSE y \in S : TRUE
         IN  f[x] + SetSum(S \ {x}, f)

\* the stock of the products of a collection, each product counted once
StockOfProducts(products, h) ==
    SetSum(Range(products), [p \in ProductIds |-> h[p].quantity])

\* the stock of the entries of a collection, a product held k times counted k times
StockOfEntries(products, h) ==
    SetSum(ProductIds, [p \in ProductIds |-> Count(products, p) * h[p].quantity])

\* the units the first n entries of list ask for
RECURSIVE PrefixAmount(_, _)
PrefixAmount(list, n) ==
    IF n = 0 THEN 0 ELSE PrefixAmount(list, n - 1) + list[n][2]

\* the units the entries of list take out of the collection's total, an entry
\* for a product held k times taking k times its amount
RECURSIVE WeightedAmount(_, _, _)
WeightedAmount(list, n, products) ==
    IF n = 0 THEN 0
    ELSE WeightedAmount(list, n - 1, products) + list[n][2] * Count(products, list[n][1])

\* the positions of the collection holding an active product
ActivePositions(products, h) == {i \in 1 .. Len(products) : h[products[i]].active}

(* -------------------------- claims C11 .. C18 -------------------------- *)

\* C11: get_all_products returns exactly the active products of the
\* collection, in the order they have in the collection, and changes nothing.
C11_ActiveProductsInOrder ==
    [][last'.op = "get_all_products" =>
          LET r == last'.products
              act == ActivePositions(store.products, heap)
          IN  /\ Len(r) = Cardinality(act)
              /\ \A k \in 1 .. Len(r) :
                    \E i \in act : Cardinality({j \in act : j <= i}) = k /\ r[k] = store.products[i]
              /\ heap' = heap /\ store' = store /\ made' = made]_vars

\* C11 witness: of a collection of two different products only the second,
\* the active one, was returned
C11_Witness ==
    /\ last.op = "get_all_products" /\ Len(store.products) = 2
    /\ store.products[1] # store.products[2]
    /\ ~heap[store.products[1]].active
    /\ last.products = <<store.products[2]>>

\* C12 (as stated): get_total_quantity is the sum of quantity over the
\* products of the collection, and a successful order whose entries all
\* name products of the collection lowers it by the sum of the amounts.
C12_TotalQuantity ==
    [][/\ last'.op = "get_total_quantity" => last'.ret = StockOfProducts(store.products, heap)
       /\ (/\ last'.op = "order" /\ last'.err = NoError
           /\ \A j \in 1 .. Len(shopping_list) : shopping_list[j][1] \in Range(store.products))
          => get_total_quantity(store'.products, heap')
               = get_total_quantity(store.products, heap) - PrefixAmount(shopping_list, Len(shopping_list))]_vars

\* C12 (amended): get_total_quantity is the sum of quantity over the entries
\* of the collection, inactive products included and a product held k times
\* counted k times; a successful order lowers it by the sum over its entries
\* of amount times the number of times the entry's product is held.
C12_TotalQuantityOfEntries ==
    [][/\ last'.op = "get_total_quantity" =>
             /\ last'.ret = StockOfEntries(store.products, heap)
             /\ heap' = heap /\ store' = store
       /\ (last'.op = "order" /\ last'.err = NoError)
          => get_total_quantity(store'.products, heap')
               = get_total_quantity(store.products, heap)
                 - WeightedAmount(shopping_list, Len(shopping_list), store.products)]_vars

\* C12 witness: the total counted the stock of an inactive product
C12_Witness ==
    /\ last.op = "get_total_quantity" /\ last.ret > 0
    /\ store.products # <<>>
    /\ \A i \in 1 .. Len(store.products) : ~heap[store.products[i]].active

\* C13: add_product raises ValueError for a product already held and appends
\* any other at the end; remove_product raises ValueError for a product not
\* held and otherwise takes out its first occurrence, keeping the others in
\* order; a failed call leaves the collection as it was.
C13_AddRemove ==
    [][LET ps == store.products
           p == last'.p
       IN  /\ last'.op = "add_product" =>
                 /\ heap' = heap
                 /\ IF p \in Range(ps)
                    THEN last'.err = ValueError("This product is already in store inventory.") /\ store' = store
                    ELSE last'.err = NoError /\ store'.products = ps \o <<p>>
           /\ last'.op = "remove_product" =>
                 /\ heap' = heap
                 /\ IF p \notin Range(ps)
                    THEN last'.err = ValueError("This product does not exist in store inventory.") /\ store' = store
                    ELSE /\ last'.err = NoError
                         /\ \E k \in 1 .. Len(ps) :
                               /\ ps[k] = p
                               /\ \A j \in 1 .. (k - 1) : ps[j] # p
                               /\ store'.products = SubSeq(ps, 1, k - 1) \o SubSeq(ps, k + 1, Len(ps))]_vars

\* C13 witness: a product was removed and the other one is still held
C13_Witness ==
    /\ last.op = "remove_product" /\ last.returned
    /\ Len(store.products) = 1 /\ store.products[1] # last.p

\* C14: Product(name, price, quantity) raises ValueError exactly when name is
\* empty or price < 0 or quantity < 0, and then creates nothing; otherwise
\* the new product holds the given name, price and quantity and is active.
C14_Construct ==
    [][last'.op = "Product" =>
          LET bad == last'.name = "" \/ last'.price < 0 \/ last'.q < 0
          IN  /\ bad <=> last'.err.type = "ValueError"
              /\ bad => (made' = made /\ heap' = heap /\ ~last'.returned)
              /\ ~bad =>
                    /\ last'.err = NoError
                    /\ made' = made \cup {last'.p}
                    /\ heap' = [heap EXCEPT ![last'.p] = [name |-> last'.name, price |-> last'.price, quantity |-> last'.q, active |-> TRUE]]]_vars

\* C14 witness: construction was refused for a negative price alone
C14_Witness ==
    /\ last.op = "Product" /\ last.err.type = "ValueError"
    /\ last.name # "" /\ last.price < 0 /\ last.q >= 0

\* C15 (as stated): a product's quantity goes down only in a successful buy
\* of it or in an order naming it.
C15_DecreaseOnlyByPurchase ==
    [][\A p \in made :
          heap'[p].quantity < heap[p].quantity =>
             \/ (last'.op = "buy" /\ last'.p = p /\ last'.returned)
             \/ (last'.op = "order" /\ NamedIn(shopping_list, Len(shopping_list), p))]_vars

\* C15 (amended): a product's quantity goes down only in a successful buy of
\* it, in an order naming it, or in a successful set_quantity on it with a
\* quantity below its stock.
C15_DecreaseByPurchaseOrSet ==
    [][\A p \in made :
          heap'[p].quantity < heap[p].quantity =>
             \/ (last'.op = "buy" /\ last'.p = p /\ last'.returned)
             \/ (last'.op = "order" /\ NamedIn(shopping_list, Len(shopping_list), p))
             \/ (last'.op = "set_quantity" /\ last'.p = p /\ last'.returned /\ last'.q < heap[p].quantity)]_vars

\* C15 witness: a buy of the one unit left has returned
C15_Witness ==
    /\ last.op = "buy" /\ last.returned /\ last.q = 1
    /\ heap[last.p].quantity = 0 /\ store.made /\ store.products # <<>>

\* C18: order, returning or raising, leaves the collection as it was, never
\* changes a name or a price, changes nothing of a product no applied entry
\* names, and takes the amounts of the applied entries out of the products
\* they name whether the collection holds them or not.
C18_OrderFrame ==
    [][last'.op = "order" =>
          LET n == IF last'.err = NoError THEN Len(shopping_list) ELSE last'.idx - 1
          IN  /\ store' = store
              /\ made' = made
              /\ \A p \in ProductIds :
                    /\ heap'[p].name = heap[p].name
                    /\ heap'[p].price = heap[p].price
                    /\ heap'[p].quantity = heap[p].quantity - PrefixQty(shopping_list, n, p)
                    /\ ~NamedIn(shopping_list, n, p) => heap'[p] = heap[p]]_vars

\* C18 witness: an order was paid for although the only product the
\* collection holds is free of charge: a product outside it was bought
C18_Witness ==
    /\ last.op = "order" /\ last.returned /\ last.ret > 0
    /\ Len(store.products) = 1 /\ heap[store.products[1]].price = 0

\* the session has ended: sys.exit(0), or an exception nothing caught
Ended(u) == u.pc \in {"exited", "crashed"}

\* C16 (as stated): the order of a shopping list assembled by order_items
\* raises nothing.
C16_UIOrderAccepted ==
    [][(ui.pc = "product" /\ last'.op = "order") => last'.err = NoError]_vars

\* C16 (amended): every entry of a list assembled by order_items names a
\* product of the active-products list with an amount between 1 and its
\* stock; the order of the list raises nothing exactly when, for every
\* product, the amounts of its entries together do not exceed its stock;
\* otherwise it fails at the first entry that brings a product's amounts
\* above its stock, for lack of stock or for an inactive product.
C16_UIOrderAcceptedWithinStock ==
    [][(ui.pc = "product" /\ last'.op = "order") =>
          LET list == shopping_list
              n == Len(list)
          IN  /\ \A j \in 1 .. n :
                    /\ list[j][1] \in Range(get_all_products(store.products, heap))
                    /\ 1 <= list[j][2] /\ list[j][2] <= heap[list[j][1]].quantity
              /\ last'.err = NoError <=> \A p \in ProductIds : PrefixQty(list, n, p) <= heap[p].quantity
              /\ last'.err # NoError =>
                    /\ last'.err.type \in {"ProductQuantityError", "ProductNotActiveError"}
                    /\ last'.err # ProductQuantityError_invalid
                    /\ last'.idx \in 2 .. n
                    /\ PrefixQty(list, last'.idx, list[last'.idx][1]) > heap[list[last'.idx][1]].quantity
                    /\ \A p \in ProductIds : PrefixQty(list, last'.idx - 1, p) <= heap[p].quantity]_vars

\* C16 witness: the session ordered a list of two units and was charged for them
C16_Witness ==
    /\ ui.pc = "menu" /\ last.op = "order" /\ last.returned /\ last.ret = 4
    /\ \E p \in Range(store.products) : heap[p].quantity = 0 /\ ~heap[p].active

\* C17: the session ends only through the Quit command: text typed at the
\* menu is asked again, a number outside 1..4 runs no command and leaves the
\* session at the menu, and an order that raises leaves it at the menu.
C17_SessionEndsOnlyByQuit ==
    [][/\ (ui.pc = "menu" /\ last'.op = "menu" /\ last'.name # "") =>
             (ui'.pc = "menu" /\ heap' = heap /\ store' = store)
       /\ (ui.pc = "menu" /\ last'.op = "menu" /\ last'.name = "" /\ last'.q \notin 1 .. NumCommands) =>
             (ui'.pc = "menu" /\ last'.cmd = 0 /\ heap' = heap /\ store' = store)
       /\ (ui.pc = "product" /\ last'.op = "order" /\ last'.err # NoError) => ui'.pc = "menu"
       /\ (~Ended(ui) /\ Ended(ui')) =>
             (ui'.pc = "exited" /\ last'.op = "menu" /\ last'.cmd = NumCommands /\ last'.q = NumCommands)]_vars

====
